---------------------------- MODULE Spec2Model ----------------------------
(***************************************************************************)
(* Model of parachute/design/generate_gore.py: the script that reads four  *)
(* physical parameters, draws the flat pattern of one gore and exports the *)
(* 3-D mesh of the assembled hemispherical canopy.                         *)
(*                                                                         *)
(* Python floats are modelled as fixed-point integers: a real v is the     *)
(* integer v * Scale.  Quantities read in metres are scaled metres, those  *)
(* read in centimetres are scaled centimetres; the code's /100.0 is an     *)
(* integer division by 100.  sin and cos are computed by a Taylor series   *)
(* on the scaled values, so that, as in floating point, a computed         *)
(* coordinate is only close to the exact one.                              *)
(*                                                                         *)
(* The code fixes the three resolutions (num_points = 100, phi_steps =     *)
(* 100, theta_steps = 50); here each is fixed in the initial state to a    *)
(* small value.  The matplotlib calls of plot_and_save_gore (lines 50-80)  *)
(* act on the figure only and are left out; what the function computes     *)
(* and what it writes are kept.                                            *)
(***************************************************************************)
EXTENDS Integers, Sequences, FiniteSets, TLC

VARIABLES
    pc,            \* position of the script
    rerun,         \* FALSE in the first run of the script, TRUE in a later one
    num_points,    \* resolution of the gore curve (default argument, line 10)
    phi_steps,     \* resolution along the vertical (line 167)
    theta_steps,   \* resolution across the gore width (line 168)
    diameter, radius, num_gores, seam_cm, seam_m, spill_cm, spill_m,
    outputs_dir,   \* whether the directory "outputs" exists
    files,         \* path -> sequence of the writes made to it, oldest first
    points,        \* the gore curve computed by plot_and_save_gore
    all_vertices, all_faces, vertex_offset, g,   \* assemble_full_parachute
    vertices, faces, keep_mask, old_to_new,      \* export_parachute_3d_mesh
    mesh           \* what was handed to trimesh.Trimesh, <<>> before that

vars == <<pc, rerun, num_points, phi_steps, theta_steps,
          diameter, radius, num_gores, seam_cm, seam_m, spill_cm, spill_m,
          outputs_dir, files, points,
          all_vertices, all_faces, vertex_offset, g,
          vertices, faces, keep_mask, old_to_new, mesh>>

inputVars == <<diameter, radius, num_gores, seam_cm, seam_m, spill_cm, spill_m>>
resVars   == <<num_points, phi_steps, theta_steps>>
fsVars    == <<outputs_dir, files>>
asmVars   == <<all_vertices, all_faces, vertex_offset, g>>
expVars   == <<vertices, faces, keep_mask, old_to_new, mesh>>

---------------------------------------------------------------------------
(* Bounds of the model.                                                    *)
MaxGores      == 3
MaxPoints     == 2
MaxPhiSteps   == 4
MaxThetaSteps == 3

(* Fixed-point arithmetic standing for Python's float.                     *)
Scale == 10000
PI    == 31416                     \* math.pi, np.pi
INFLATION_FACTOR == 11000          \* inflation_factor=1.1

Abs(a) == IF a < 0 THEN -a ELSE a

\* a * b on floats, rounded to the nearest representable value
Mul(a, b) ==
    LET p == a * b
    IN  IF p < 0 THEN -((-p + Scale \div 2) \div Scale)
        ELSE (p + Scale \div 2) \div Scale

\* i / n for Python ints i and n: a float
IntDiv(i, n) == (i * Scale) \div n

\* floor of the square root, by bisection on lo <= root < hi
RECURSIVE SqrtBetween(_, _, _)
SqrtBetween(n, lo, hi) ==
    IF hi - lo <= 1 THEN lo
    ELSE LET mid == (lo + hi) \div 2
         IN  IF mid * mid <= n THEN SqrtBetween(n, mid, hi)
             ELSE SqrtBetween(n, lo, mid)

Sqrt(n) == SqrtBetween(n, 0, 4 * Scale)

\* sin of an angle in [0, pi/2]: x - x^3/3! + ... + x^9/9!
SinSeries(x) ==
    LET x2 == Mul(x, x)
        t3 == Mul(x, x2) \div 6
        t5 == Mul(t3, x2) \div 20
        t7 == Mul(t5, x2) \div 42
        t9 == Mul(t7, x2) \div 72
    IN  x - t3 + t5 - t7 + t9

\* math.sin / np.sin
Sin(x) ==
    LET m == ((x + PI) % (2 * PI)) - PI        \* in [-pi, pi)
        r == IF m > PI \div 2 THEN PI - m
             ELSE IF m < -(PI \div 2) THEN -PI - m
             ELSE m
    IN  IF r < 0 THEN -SinSeries(-r) ELSE SinSeries(r)

\* np.cos
Cos(x) == Sin(x + PI \div 2)

\* np.linspace(start, stop, num) for num >= 2: the last sample is stop itself
Linspace(start, stop, num) ==
    [k \in 1..num |->
        IF k = num THEN stop
        ELSE start + ((k - 1) * (stop - start)) \div (num - 1)]

---------------------------------------------------------------------------
(* What the user may type at a prompt: <<parses, value>>.  A line that     *)
(* float() or int() rejects has parses = FALSE.                            *)
Unparsable == <<FALSE, 0>>

DiameterInputs == {Unparsable, <<TRUE, -Scale>>, <<TRUE, 0>>,
                   <<TRUE, Scale>>, <<TRUE, Scale + 40>>, <<TRUE, 2 * Scale>>}
GoreInputs     == {Unparsable, <<TRUE, -1>>, <<TRUE, 0>>}
                     \cup {<<TRUE, n>> : n \in 1..MaxGores}
SeamInputs     == {Unparsable, <<TRUE, -Scale>>, <<TRUE, 0>>,
                   <<TRUE, (3 * Scale) \div 2>>, <<TRUE, (3 * Scale) \div 2 + 400>>}
SpillInputs    == {Unparsable, <<TRUE, -Scale>>, <<TRUE, 0>>,
                   <<TRUE, 50 * Scale>>, <<TRUE, 200 * Scale>>}

NoFiles == [p \in {} |-> <<>>]

InitRun ==
    /\ pc = "read_diameter"
    /\ diameter = 0 /\ radius = 0 /\ num_gores = 0
    /\ seam_cm = 0 /\ seam_m = 0 /\ spill_cm = 0 /\ spill_m = 0
    /\ points = <<>>
    /\ all_vertices = <<>> /\ all_faces = <<>> /\ vertex_offset = 0 /\ g = 0
    /\ vertices = <<>> /\ faces = <<>> /\ keep_mask = <<>> /\ old_to_new = <<>>
    /\ mesh = <<>>

Init ==
    /\ InitRun
    /\ rerun = FALSE
    /\ num_points \in 1..MaxPoints
    /\ phi_steps \in 2..MaxPhiSteps
    /\ theta_steps \in 2..MaxThetaSteps
    /\ outputs_dir = FALSE
    /\ files = NoFiles

---------------------------------------------------------------------------
(* Lines 196-218: the four prompts.  A ValueError, raised by the parse or  *)
(* by a failed check, is caught, reported, and the script exits.           *)

\* a slip: < for <=, a diameter of 0 passes
DiameterOkAtZero(inp) == inp[1] /\ ~(inp[2] < 0)

DiameterOk(inp) == inp[1] /\ ~(inp[2] <= 0)

ReadDiameter ==
    /\ pc = "read_diameter"
    /\ \E inp \in DiameterInputs :
         IF DiameterOk(inp)
         THEN /\ diameter' = inp[2]
              /\ radius' = inp[2] \div 2
              /\ pc' = "read_gores"
         ELSE /\ diameter' = (IF inp[1] THEN inp[2] ELSE diameter)
              /\ radius' = radius
              /\ pc' = "input_error"
    /\ UNCHANGED <<rerun, resVars, num_gores, seam_cm, seam_m, spill_cm, spill_m,
                   fsVars, points, asmVars, expVars>>

GoresOk(inp) == inp[1] /\ ~(inp[2] < 1)

ReadGores ==
    /\ pc = "read_gores"
    /\ \E inp \in GoreInputs :
         IF GoresOk(inp)
         THEN /\ num_gores' = inp[2]
              /\ pc' = "read_seam"
         ELSE /\ num_gores' = (IF inp[1] THEN inp[2] ELSE num_gores)
              /\ pc' = "input_error"
    /\ UNCHANGED <<rerun, resVars, diameter, radius, seam_cm, seam_m, spill_cm,
                   spill_m, fsVars, points, asmVars, expVars>>

SeamOk(inp) == inp[1] /\ ~(inp[2] \div 100 < 0)

ReadSeam ==
    /\ pc = "read_seam"
    /\ \E inp \in SeamInputs :
         IF SeamOk(inp)
         THEN /\ seam_cm' = inp[2]
              /\ seam_m' = inp[2] \div 100
              /\ pc' = "read_spill"
         ELSE /\ seam_cm' = (IF inp[1] THEN inp[2] ELSE seam_cm)
              /\ seam_m' = (IF inp[1] THEN inp[2] \div 100 ELSE seam_m)
              /\ pc' = "input_error"
    /\ UNCHANGED <<rerun, resVars, diameter, radius, num_gores, spill_cm, spill_m,
                   fsVars, points, asmVars, expVars>>

SpillOk(inp) == inp[1] /\ ~(inp[2] \div 100 < 0)

ReadSpill ==
    /\ pc = "read_spill"
    /\ \E inp \in SpillInputs :
         IF SpillOk(inp)
         THEN /\ spill_cm' = inp[2]
              /\ spill_m' = inp[2] \div 100
              /\ pc' = "plot"
         ELSE /\ spill_cm' = (IF inp[1] THEN inp[2] ELSE spill_cm)
              /\ spill_m' = (IF inp[1] THEN inp[2] \div 100 ELSE spill_m)
              /\ pc' = "input_error"
    /\ UNCHANGED <<rerun, resVars, diameter, radius, num_gores, seam_cm, seam_m,
                   fsVars, points, asmVars, expVars>>

\* lines 216-218: print the error and exit()
InputError ==
    /\ pc = "input_error"
    /\ pc' = "exited"
    /\ UNCHANGED <<rerun, resVars, inputVars, fsVars, points, asmVars, expVars>>

---------------------------------------------------------------------------
(* Lines 10-32: one side of the flat gore, num_points + 1 samples (x, y).  *)

\* a slip: the height of the dome at phi instead of the arc length
GorePointChord(rad, gores, npoints, i) ==
    LET phi == Mul(IntDiv(i, npoints), PI \div 2)
        r   == Mul(rad, Sin(phi))
    IN  <<Mul(PI, r) \div gores, r>>

GorePoint(rad, gores, npoints, i) ==
    LET height == Mul(PI, rad) \div 2
        y   == Mul(IntDiv(i, npoints), height)
        phi == Mul(IntDiv(i, npoints), PI \div 2)
        r   == Mul(rad, Sin(phi))
        x   == Mul(PI, r) \div gores
    IN  <<x, y>>

RECURSIVE GoreCoordsLoop(_, _, _, _, _)
GoreCoordsLoop(rad, gores, npoints, i, coords) ==
    IF i >= npoints + 1 THEN coords
    ELSE GoreCoordsLoop(rad, gores, npoints, i + 1,
                        Append(coords, GorePoint(rad, gores, npoints, i)))

calculate_hemispherical_gore_coordinates(rad, gores, npoints) ==
    GoreCoordsLoop(rad, gores, npoints, 0, <<>>)

---------------------------------------------------------------------------
(* File names (lines 83 and 222) and the file system.                      *)

\* v * f rounded to the nearest integer, for v >= 0: the digits a format keeps
RoundTo(v, f) == (v * f + Scale \div 2) \div Scale

\* f"{v:.2f}" for v >= 0
Fmt2(v) ==
    LET h == RoundTo(v, 100)
    IN  ToString(h \div 100) \o "." \o ToString((h % 100) \div 10)
                             \o ToString(h % 10)

\* f"{v:.1f}" for v >= 0
Fmt1(v) ==
    LET t == RoundTo(v, 10)
    IN  ToString(t \div 10) \o "." \o ToString(t % 10)

\* a slip: the gore count is left out of the name
PdfNameNoGores(d, gores, seam) ==
    "outputs/gore_D" \o Fmt2(d) \o "m_SA" \o Fmt1(seam) \o "cm.pdf"

PdfName(d, gores, seam) ==
    "outputs/gore_D" \o Fmt2(d) \o "m_G" \o ToString(gores)
                     \o "_SA" \o Fmt1(seam) \o "cm.pdf"

StlFilename(d, gores) ==
    "parachute_D" \o Fmt2(d) \o "m_G" \o ToString(gores) \o ".stl"

StlPath(filename) == "outputs/" \o filename

\* what is recorded of a written file: its kind and the configuration of the
\* run that wrote it
Written(kind) == [kind |-> kind, diameter |-> diameter, num_gores |-> num_gores,
                  seam_cm |-> seam_cm, spill_cm |-> spill_cm]

WriteFile(fs, path, w) ==
    [p \in DOMAIN fs \cup {path} |->
        IF p # path THEN fs[p]
        ELSE IF p \in DOMAIN fs THEN Append(fs[p], w) ELSE <<w>>]

\* lines 36-86
PlotAndSaveGore ==
    /\ pc = "plot"
    /\ points' = calculate_hemispherical_gore_coordinates(radius, num_gores,
                                                           num_points)
    /\ outputs_dir' = TRUE
    /\ files' = WriteFile(files, PdfName(diameter, num_gores, seam_cm),
                          Written("pdf"))
    /\ pc' = "export"
    /\ UNCHANGED <<rerun, resVars, inputVars, asmVars, expVars>>

---------------------------------------------------------------------------
(* Lines 91-111: the grid of one gore.  np.meshgrid(phi, theta) gives      *)
(* arrays of shape (theta_steps, phi_steps): row i holds theta[i], column  *)
(* j holds phi[j].                                                         *)

PhiAxis(psteps) == Linspace(0, PI \div 2, psteps)

ThetaAxis(gores, tsteps) == Linspace(-(PI \div gores), PI \div gores, tsteps)

generate_gore_mesh(rad, psteps, tsteps, gores, inflation) ==
    LET phi   == PhiAxis(psteps)
        theta == ThetaAxis(gores, tsteps)
    IN  [x |-> [i \in 1..tsteps |-> [j \in 1..psteps |->
                   Mul(Mul(rad, Sin(phi[j])), Sin(theta[i]))]],
         y |-> [i \in 1..tsteps |-> [j \in 1..psteps |->
                   Mul(Mul(rad, Sin(phi[j])), Cos(theta[i]))]],
         z |-> [i \in 1..tsteps |-> [j \in 1..psteps |->
                   Mul(Mul(rad, inflation), Cos(phi[j]))]]]

\* a slip: half the step between two gores
GoreAngleHalf(gore, gores) == (gore * PI) \div gores

\* line 127
GoreAngle(gore, gores) == (gore * 2 * PI) \div gores

\* lines 131-133: rotate about z, stack and reshape(-1, 3) in row-major order
RotatedVertices(m, angle) ==
    LET rows == Len(m.x)
        cols == Len(m.x[1])
    IN  [k \in 1..(rows * cols) |->
            LET i == ((k - 1) \div cols) + 1
                j == ((k - 1) % cols) + 1
            IN  <<Mul(m.x[i][j], Cos(angle)) - Mul(m.y[i][j], Sin(angle)),
                  Mul(m.x[i][j], Sin(angle)) + Mul(m.y[i][j], Cos(angle)),
                  m.z[i][j]>>]

\* a slip: only one triangle per cell
CellFacesOneTriangle(offset, cols, i, j) ==
    LET a == offset + i * cols + j
    IN  <<<<a, a + 1, a + cols>>>>

\* a slip: the running vertex offset is forgotten
CellFacesNoOffset(offset, cols, i, j) ==
    LET a == i * cols + j
        b == a + 1
        c == a + cols
        d == c + 1
    IN  <<<<a, b, c>>, <<b, d, c>>>>

\* lines 140-145: the two triangles of cell (i, j)
CellFaces(offset, cols, i, j) ==
    LET a == offset + i * cols + j
        b == a + 1
        c == a + cols
        d == c + 1
    IN  <<<<a, b, c>>, <<b, d, c>>>>

\* lines 138-145: for i in range(rows - 1): for j in range(cols - 1)
RECURSIVE FaceLoop(_, _, _, _, _, _)
FaceLoop(offset, rows, cols, i, j, acc) ==
    IF i >= rows - 1 THEN acc
    ELSE IF j >= cols - 1 THEN FaceLoop(offset, rows, cols, i + 1, 0, acc)
    ELSE FaceLoop(offset, rows, cols, i, j + 1,
                  acc \o CellFaces(offset, cols, i, j))

\* lines 122-124: entry into assemble_full_parachute, called at line 170
ExportBegin ==
    /\ pc = "export"
    /\ all_vertices' = <<>>
    /\ all_faces' = <<>>
    /\ vertex_offset' = 0
    /\ g' = 0
    /\ pc' = "assemble"
    /\ UNCHANGED <<rerun, resVars, inputVars, fsVars, points, expVars>>

\* lines 126-147: one iteration of the loop over the gores
AssembleGore ==
    /\ pc = "assemble"
    /\ g < num_gores
    /\ LET m  == generate_gore_mesh(radius, phi_steps, theta_steps, num_gores,
                                    INFLATION_FACTOR)
           vs == RotatedVertices(m, GoreAngle(g, num_gores))
       IN  /\ all_vertices' = all_vertices \o vs
           /\ all_faces' = FaceLoop(vertex_offset, Len(m.x), Len(m.x[1]),
                                    0, 0, all_faces)
           /\ vertex_offset' = vertex_offset + Len(vs)
    /\ g' = g + 1
    /\ UNCHANGED <<pc, rerun, resVars, inputVars, fsVars, points, expVars>>

\* lines 149-151 and 170: the loop is over, the buffers are returned
AssembleReturn ==
    /\ pc = "assemble"
    /\ ~(g < num_gores)
    /\ vertices' = all_vertices
    /\ faces' = all_faces
    /\ pc' = "spill_filter"
    /\ UNCHANGED <<rerun, resVars, inputVars, fsVars, points, asmVars,
                   keep_mask, old_to_new, mesh>>

---------------------------------------------------------------------------
(* Lines 173-186: the spill hole.                                          *)

\* np.linalg.norm(vertices[:, :2], axis=1)
RadialDistance(v) == Sqrt(v[1] * v[1] + v[2] * v[2])

\* a slip: the filter also runs for a spill hole of diameter 0
SpillActiveAtZero(spill) == spill >= 0

\* line 173
SpillActive(spill) == spill > 0

\* a slip: the norm is taken over x, y and z
KeepByNorm3(v, spill) ==
    2 * Sqrt(v[1] * v[1] + v[2] * v[2] + v[3] * v[3]) > spill

\* radial_distance > (spill_m / 2); halving a float is exact
Keep(v, spill) == 2 * RadialDistance(v) > spill

KeepMask(vs, spill) == [k \in 1..Len(vs) |-> Keep(vs[k], spill)]

\* np.where(keep_mask)[0]: the kept (0-based) indices in increasing order
RECURSIVE WhereFrom(_, _, _)
WhereFrom(mask, k, acc) ==
    IF k > Len(mask) THEN acc
    ELSE WhereFrom(mask, k + 1, IF mask[k] THEN Append(acc, k - 1) ELSE acc)

Where(mask) == WhereFrom(mask, 1, <<>>)

\* lines 177-179
OldToNew(mask) ==
    LET new_indices == Where(mask)
    IN  [k \in 1..Len(mask) |->
            IF \E r \in 1..Len(new_indices) : new_indices[r] = k - 1
            THEN (CHOOSE r \in 1..Len(new_indices) : new_indices[r] = k - 1) - 1
            ELSE -1]

\* vertices[keep_mask]
MaskedVertices(vs, mask) ==
    LET new_indices == Where(mask)
    IN  [r \in 1..Len(new_indices) |-> vs[new_indices[r] + 1]]

\* a slip: any() for all()
FaceKeptAny(mask, face) == \E n \in 1..3 : mask[face[n] + 1]

\* all(keep_mask[face])
FaceKept(mask, face) == \A n \in 1..3 : mask[face[n] + 1]

\* lines 182-185
RECURSIVE FilterFaces(_, _, _, _, _)
FilterFaces(fs, mask, o2n, k, acc) ==
    IF k > Len(fs) THEN acc
    ELSE FilterFaces(fs, mask, o2n, k + 1,
            IF FaceKept(mask, fs[k])
            THEN Append(acc, [n \in 1..3 |-> o2n[fs[k][n] + 1]])
            ELSE acc)

SpillFilter ==
    /\ pc = "spill_filter"
    /\ IF SpillActive(spill_m)
       THEN LET mask == KeepMask(vertices, spill_m)
                o2n  == OldToNew(mask)
            IN  /\ keep_mask' = mask
                /\ old_to_new' = o2n
                /\ vertices' = MaskedVertices(vertices, mask)
                /\ faces' = FilterFaces(faces, mask, o2n, 1, <<>>)
       ELSE UNCHANGED <<vertices, faces, keep_mask, old_to_new>>
    /\ pc' = "mesh_export"
    /\ UNCHANGED <<rerun, resVars, inputVars, fsVars, points, asmVars, mesh>>

\* lines 188-191 (the file name is built at line 222)
MeshExport ==
    /\ pc = "mesh_export"
    /\ mesh' = [vertices |-> vertices, faces |-> faces]
    /\ outputs_dir' = TRUE
    /\ files' = WriteFile(files, StlPath(StlFilename(diameter, num_gores)),
                          Written("stl"))
    /\ pc' = "done"
    /\ UNCHANGED <<rerun, resVars, inputVars, points, asmVars,
                   vertices, faces, keep_mask, old_to_new>>

\* the user starts the script again; the directory and its files are still there
Restart ==
    /\ pc \in {"done", "exited"}
    /\ ~rerun
    /\ rerun' = TRUE
    /\ pc' = "read_diameter"
    /\ diameter' = 0 /\ radius' = 0 /\ num_gores' = 0
    /\ seam_cm' = 0 /\ seam_m' = 0 /\ spill_cm' = 0 /\ spill_m' = 0
    /\ points' = <<>>
    /\ all_vertices' = <<>> /\ all_faces' = <<>> /\ vertex_offset' = 0 /\ g' = 0
    /\ vertices' = <<>> /\ faces' = <<>> /\ keep_mask' = <<>> /\ old_to_new' = <<>>
    /\ mesh' = <<>>
    /\ UNCHANGED <<resVars, fsVars>>

---------------------------------------------------------------------------
Next ==
    \/ ReadDiameter \/ ReadGores \/ ReadSeam \/ ReadSpill \/ InputError
    \/ PlotAndSaveGore
    \/ ExportBegin \/ AssembleGore \/ AssembleReturn \/ SpillFilter \/ MeshExport

Spec == Init /\ [][Next]_vars

\* two runs of the script, one after the other, at the smallest resolution
InitRuns ==
    /\ InitRun
    /\ rerun = FALSE
    /\ num_points = 1 /\ phi_steps = 2 /\ theta_steps = 2
    /\ outputs_dir = FALSE
    /\ files = NoFiles

NextRuns == Next \/ Restart

SpecRuns == InitRuns /\ [][NextRuns]_vars
---------------------------------------------------------------------------
(* Properties.                                                             *)

\* the shape of one gore's grid: rows, cols = x.shape (line 137)
GridRows == theta_steps
GridCols == phi_steps

Assembled == pc \in {"spill_filter", "mesh_export", "done"}

\* C1: assemble_full_parachute returns numGores*phiSteps*thetaSteps vertices
\* and numGores*2*(phiSteps-1)*(thetaSteps-1) triangles.
C1_BufferSizes ==
    /\ pc = "spill_filter" =>
          /\ Len(vertices) = num_gores * phi_steps * theta_steps
          /\ Len(faces) = num_gores * 2 * (phi_steps - 1) * (theta_steps - 1)
    /\ Assembled =>
          /\ Len(all_vertices) = num_gores * phi_steps * theta_steps
          /\ Len(all_faces) = num_gores * 2 * (phi_steps - 1) * (theta_steps - 1)

C1_Witness ==
    /\ pc = "spill_filter"
    /\ num_gores = 3 /\ phi_steps = 3 /\ theta_steps = 2
    /\ Len(vertices) = 18 /\ Len(faces) = 12

\* Grid coordinates of a vertex index, by the row-major layout of reshape(-1, 3)
GoreOf(idx) == idx \div (GridRows * GridCols)
RowOf(idx)  == (idx % (GridRows * GridCols)) \div GridCols
ColOf(idx)  == idx % GridCols

\* twice the signed area of a triangle in grid coordinates
GridArea2(t) ==
    (RowOf(t[2]) - RowOf(t[1])) * (ColOf(t[3]) - ColOf(t[1]))
      - (ColOf(t[2]) - ColOf(t[1])) * (RowOf(t[3]) - RowOf(t[1]))

\* C9: for every gore and every grid cell (i, j) the two triangles (a, b, c)
\* and (b, d, c) use the four corners of that cell, a = (i, j), b = (i, j+1),
\* c = (i+1, j), d = (i+1, j+1), share the diagonal b-c, have the same winding,
\* and every index lies in the gore's own block of the vertex buffer.
C9_CellTriangles ==
    (pc = "assemble" \/ Assembled) =>
      /\ Len(all_faces) = g * 2 * (GridRows - 1) * (GridCols - 1)
      /\ \A gore \in 0..(g - 1) :
         \A i \in 0..(GridRows - 2) :
         \A j \in 0..(GridCols - 2) :
           LET k  == 2 * (gore * (GridRows - 1) * (GridCols - 1)
                            + i * (GridCols - 1) + j)
               t1 == all_faces[k + 1]
               t2 == all_faces[k + 2]
               a  == t1[1]
               b  == t1[2]
               c  == t1[3]
               d  == t2[2]
           IN  /\ t2[1] = b /\ t2[3] = c
               /\ \A n \in {a, b, c, d} :
                    /\ n \in (gore * GridRows * GridCols)
                               ..((gore + 1) * GridRows * GridCols - 1)
                    /\ n < Len(all_vertices)
                    /\ GoreOf(n) = gore
               /\ RowOf(a) = i     /\ ColOf(a) = j
               /\ RowOf(b) = i     /\ ColOf(b) = j + 1
               /\ RowOf(c) = i + 1 /\ ColOf(c) = j
               /\ RowOf(d) = i + 1 /\ ColOf(d) = j + 1
               /\ GridArea2(t1) # 0
               /\ GridArea2(t1) = GridArea2(t2)

C9_Witness ==
    /\ pc = "assemble" /\ g = 2 /\ num_gores = 3
    /\ phi_steps = 3 /\ theta_steps = 3
    /\ Len(all_faces) = 16

Filtered == pc \in {"mesh_export", "done"}

\* C2: after the spill-hole filter ran with spill_m > 0, every vertex of the
\* result lies at planar distance > spill_m/2 from the z axis and every index
\* of every face is in 0..(number of vertices - 1): no face holds the -1 of a
\* removed vertex.
C2_FilteredMeshSound ==
    (Filtered /\ spill_m > 0) =>
      /\ \A k \in 1..Len(vertices) : 2 * RadialDistance(vertices[k]) > spill_m
      /\ \A r \in 1..Len(faces) : \A n \in 1..3 :
            faces[r][n] \in 0..(Len(vertices) - 1)
      /\ {old_to_new[k] : k \in {m \in 1..Len(keep_mask) : keep_mask[m]}}
            = 0..(Len(vertices) - 1)

C2_Witness ==
    /\ pc = "mesh_export" /\ spill_m > 0
    /\ Len(vertices) > 0 /\ Len(vertices) < Len(all_vertices)
    /\ Len(faces) > 0 /\ Len(faces) < Len(all_faces)
    /\ \E k \in 1..Len(all_vertices) : RadialDistance(all_vertices[k]) = 0

\* C3: with spill_m <= 0 the filter is the identity: the mesh handed to the
\* exporter has the vertices and faces assemble_full_parachute returned, in
\* the same order, the apex vertices (distance 0 from the axis) included.
C3_NoSpillIdentity ==
    (Filtered /\ spill_m <= 0) =>
      /\ vertices = all_vertices
      /\ faces = all_faces
      /\ pc = "done" => mesh = [vertices |-> all_vertices, faces |-> all_faces]

C3_Witness ==
    /\ pc = "done" /\ spill_m = 0
    /\ Len(mesh.vertices) = num_gores * phi_steps * theta_steps
    /\ Len(mesh.faces) > 0
    /\ \E k \in 1..Len(mesh.vertices) : RadialDistance(mesh.vertices[k]) = 0

\* the input faces all three of whose vertices are kept, in input order
SurvivingFaces ==
    SelectSeq(all_faces, LAMBDA f : keep_mask[f[1] + 1] /\ keep_mask[f[2] + 1]
                                      /\ keep_mask[f[3] + 1])

KeptOld == {k \in 0..(Len(keep_mask) - 1) : keep_mask[k + 1]}

\* C4: with spill_m > 0 the filtered faces are exactly the input faces whose
\* three vertices are kept, in input order, each index remapped by
\* old_to_new, which maps the kept old indices onto 0..k-1 in increasing
\* order, a removed index to -1, and an old index to the place of the same
\* 3-D point in the filtered vertex buffer.
C4_FacesRemapped ==
    (Filtered /\ spill_m > 0) =>
      /\ Len(keep_mask) = Len(all_vertices)
      /\ Len(old_to_new) = Len(all_vertices)
      /\ Len(faces) = Len(SurvivingFaces)
      /\ \A r \in 1..Len(faces) : \A n \in 1..3 :
            /\ faces[r][n] = old_to_new[SurvivingFaces[r][n] + 1]
            /\ faces[r][n] >= 0
            /\ vertices[faces[r][n] + 1] = all_vertices[SurvivingFaces[r][n] + 1]
      /\ Len(vertices) = Cardinality(KeptOld)
      /\ \A a \in KeptOld :
            /\ old_to_new[a + 1] \in 0..(Len(vertices) - 1)
            /\ vertices[old_to_new[a + 1] + 1] = all_vertices[a + 1]
            /\ \A b \in KeptOld : a < b => old_to_new[a + 1] < old_to_new[b + 1]
      /\ \A a \in (0..(Len(keep_mask) - 1)) \ KeptOld : old_to_new[a + 1] = -1

C4_Witness ==
    /\ pc = "mesh_export" /\ spill_m > 0
    /\ Len(faces) > 0 /\ Len(faces) < Len(all_faces)
    /\ \E r \in 1..Len(all_faces) :
          /\ \E n \in 1..3 : keep_mask[all_faces[r][n] + 1]
          /\ \E n \in 1..3 : ~keep_mask[all_faces[r][n] + 1]
    /\ \E a \in KeptOld : old_to_new[a + 1] # a

\* C7: calculate_hemispherical_gore_coordinates returns num_points + 1
\* samples whose heights never decrease, from 0 at the first sample to
\* pi*radius/2 at the last.
C7_GoreCurve ==
    (pc \in {"export", "assemble", "spill_filter", "mesh_export", "done"}) =>
      /\ Len(points) = num_points + 1
      /\ points[1][2] = 0
      /\ points[Len(points)][2] = Mul(PI, radius) \div 2
      /\ \A k \in 1..(Len(points) - 1) : points[k][2] <= points[k + 1][2]

C7_Witness ==
    /\ pc = "export" /\ num_points = 2 /\ Len(points) = 3
    /\ \A k \in 1..2 : points[k][2] < points[k + 1][2]

\* two computed coordinates that stand for the same real number (1 mm)
Tolerance == Scale \div 1000

Near(v, w) == \A n \in 1..3 : Abs(v[n] - w[n]) <= Tolerance

\* the vertex of grid point (i, j), counted from 0, of gore number gore
VertexAt(gore, i, j) ==
    all_vertices[gore * GridRows * GridCols + i * GridCols + j + 1]

\* C10: the rotated patches tile the circle around the z axis.  Each patch
\* spans theta in [-pi/numGores, pi/numGores], gore number gore is turned by
\* gore*2*pi/numGores, the last edge of a gore in the sense of rotation (its
\* row theta = -pi/numGores) lies on the first edge (theta = +pi/numGores) of
\* the next gore modulo numGores, and away from the axis two vertices of the
\* assembled mesh coincide only if they are the same grid point or lie on
\* such a seam.
C10_GoresTile ==
    pc = "spill_filter" =>
      /\ ThetaAxis(num_gores, theta_steps)[1] = -(PI \div num_gores)
      /\ ThetaAxis(num_gores, theta_steps)[theta_steps] = PI \div num_gores
      /\ \A gore \in 0..(num_gores - 1) : \A j \in 0..(GridCols - 1) :
            Near(VertexAt(gore, 0, j),
                 VertexAt((gore + 1) % num_gores, GridRows - 1, j))
      /\ \A j \in 0..(GridCols - 1) :
            RadialDistance(VertexAt(0, 0, j)) > Tolerance =>
              \A g1, g2 \in 0..(num_gores - 1) :
              \A i1, i2 \in 0..(GridRows - 1) :
                 Near(VertexAt(g1, i1, j), VertexAt(g2, i2, j)) =>
                    \/ g1 = g2 /\ i1 = i2
                    \/ i1 = 0 /\ i2 = GridRows - 1 /\ g2 = (g1 + 1) % num_gores
                    \/ i2 = 0 /\ i1 = GridRows - 1 /\ g1 = (g2 + 1) % num_gores

C10_Witness ==
    /\ pc = "spill_filter" /\ num_gores = 3
    /\ theta_steps = 3 /\ phi_steps = 3
    /\ Near(VertexAt(2, 0, 2), VertexAt(0, 2, 2))
    /\ ~Near(VertexAt(2, 0, 2), VertexAt(1, 0, 2))
    /\ RadialDistance(VertexAt(2, 0, 2)) > Tolerance

InputsValid == diameter > 0 /\ num_gores >= 1 /\ seam_m >= 0 /\ spill_m >= 0

\* C5: a run in which one of the four inputs does not parse or violates its
\* constraint halts before the output directory is created and before the
\* gore PDF or the STL mesh is written; files are written only in runs whose
\* four checks passed.
C5_NoOutputOnBadInput ==
    /\ pc \in {"input_error", "exited"} => ~outputs_dir /\ files = NoFiles
    /\ (outputs_dir \/ files # NoFiles) => InputsValid
    /\ pc \in {"plot", "export", "assemble", "spill_filter", "mesh_export", "done"}
          => InputsValid

C5_Witness ==
    /\ pc = "exited"
    /\ diameter > 0 /\ num_gores >= 1 /\ seam_m >= 0 /\ spill_m < 0
    /\ ~outputs_dir /\ files = NoFiles

\* C6: when the spill diameter is at least the canopy diameter, so that no
\* vertex survives the filter, export_parachute_3d_mesh fails with an error
\* instead of reaching the export step with an empty mesh.
C6_DegenerateDetected ==
    ~ /\ pc \in {"mesh_export", "done"}
      /\ spill_m >= 2 * radius
      /\ Len(vertices) = 0 /\ Len(faces) = 0

\* the writes recorded in the file system, each with its path
Writes ==
    UNION {{[path |-> p, w |-> files[p][k]] : k \in 1..Len(files[p])}
              : p \in DOMAIN files}

ConfigOf(w) == <<w.diameter, w.num_gores, w.seam_cm, w.spill_cm>>

\* what a file name keeps of the configuration
NameKey(w) ==
    <<w.kind, RoundTo(w.diameter, 100), w.num_gores,
      IF w.kind = "pdf" THEN RoundTo(w.seam_cm, 10) ELSE 0>>

\* C8 as claimed: two writes of runs whose configurations (diameter, gore
\* count, seam allowance, spill diameter) differ go to distinct paths, and
\* the PDF and the STL go to distinct paths, so no run overwrites a file of
\* a run with another configuration.
C8_DistinctPathPerConfig ==
    \A a, b \in Writes :
       (ConfigOf(a.w) # ConfigOf(b.w) \/ a.w.kind # b.w.kind) => a.path # b.path

\* C8 as amended: two writes go to the same path exactly when they are of
\* the same kind and agree on what the name keeps: the diameter to two
\* decimals, the gore count and, for the PDF, the seam allowance to one
\* decimal.  The spill diameter is in neither name.
C8_PathPerNameKey ==
    \A a, b \in Writes : (a.path = b.path) <=> (NameKey(a.w) = NameKey(b.w))

C8_Witness ==
    /\ rerun /\ pc = "done"
    /\ \E a, b \in Writes :
          /\ a.path = b.path /\ a.w.kind = "stl"
          /\ a.w.spill_cm # b.w.spill_cm
          /\ a.w.diameter # b.w.diameter
    /\ \E a, b \in Writes : a.w.kind = "pdf" /\ b.w.kind = "pdf" /\ a.path # b.path


=============================================================================
